---- MODULE Spec2Model ----
(***************************************************************************)
(* wxman: the dashboard state machine (src/app.rs) driven by the event     *)
(* loop of run_app (src/main.rs), with the hourly scroll bound of          *)
(* src/ui/hourly.rs and the condition table of src/ui/icons.rs.            *)
(*                                                                         *)
(* Option<T> is modelled as a sequence: <<>> is None, <<x>> is Some(x).    *)
(* A String is a sequence of one-character strings.  Time is counted in    *)
(* quarter hours.                                                          *)
(***************************************************************************)
EXTENDS Integers, Sequences, FiniteSets, TLC

VARIABLES
    config,               \* App.config: location {zipcode, latitude, longitude, city} and units
    state,                \* App.state: <<"Loading">>, <<"Ready">> or <<"Error", message>>
    location,             \* App.location: Option<Location>
    weather,              \* App.weather: Option<WeatherData>
    last_updated,         \* App.last_updated: Option<DateTime>
    hourly_scroll,        \* App.hourly_scroll
    show_help,            \* App.show_help
    show_units_menu,      \* App.show_units_menu
    units_menu_selection, \* App.units_menu_selection
    units_changed,        \* App.units_changed
    show_location_input,  \* App.show_location_input
    location_input,       \* App.location_input
    location_error,       \* App.location_error: Option<String>
    should_quit,          \* App.should_quit
    pc,                   \* position of run_app: where the loop stands or which await it is suspended in
                          \* ("call" / "returned" when an App command is called outside the loop)
    ret,                  \* call site of the load_weather in flight ("none" when there is none)
    last_refresh,         \* run_app's last_refresh Instant
    now,                  \* the wall clock
    pre,                  \* history: <<data at the entry of the load_weather in flight>>, else <<>>
    result,               \* history: what close_units_menu / submit_location returned in this iteration
    loads,                \* history: load_weather calls started since the last draw
    save_result,          \* history: outcome of config.save() in this iteration
    menu_keys,            \* history: presses of a navigation or toggle key in the units menu
    lookup_result,        \* history: answer of lookup_zipcode to submit_location in this iteration
    event,                \* history: the command the key press of this iteration ran ("none": no key press)
    arg,                  \* input handed to a function of src/ui or src/config
    out                   \* what that function returned

vars == <<config, state, location, weather, last_updated, hourly_scroll,
          show_help, show_units_menu, units_menu_selection, units_changed,
          show_location_input, location_input, location_error, should_quit,
          pc, ret, last_refresh, now, pre, result, loads, save_result, menu_keys,
          lookup_result, event, arg, out>>

pureVars == <<arg, out>>

appVars == <<config, state, location, weather, last_updated, hourly_scroll,
             show_help, show_units_menu, units_menu_selection, units_changed,
             show_location_input, location_input, location_error, should_quit>>

----------------------------------------------------------------------------
(* Bounds of the model *)

\* clock value at which run_app starts (01:00 of the forecast's first day)
StartClock == 4
\* quarter hours that pass during a run
MaxTicks == 1
\* number of hourly samples in a fetched snapshot
NumHourly == 11
\* longest text typed into the location overlay
MaxInputLen == 1
\* load_weather calls counted per loop iteration
MaxLoads == 2
\* presses of a navigation or toggle key in the units menu during a run
MaxMenuKeys == 1
\* largest magnitude of the WMO codes handed to from_wmo_code
MaxCode == 101

\* largest magnitude of the degrees handed to wind_direction_str
MaxDegrees == 725

\* largest magnitude, in degrees Celsius, of the temperatures handed to convert
MaxCelsius == 105

\* largest number of hourly samples handed to the hourly renderer
MaxHours == 6

\* largest inner height of the hourly panel
MaxHeight == 7

\* largest number of daily samples handed to the daily renderer
MaxDays == 6

\* largest inner height of the hourly panel the scroll commands are tried with
MaxPanelHeight == 18

\* largest number of hourly samples the scroll commands are tried with
MaxSamples == 13

\* smallest inner height of the hourly panel the scroll commands are tried with
MinPanelHeight == 8

\* characters typed into the location overlay
InputChars == {" ", "q"}

\* last clock value of a run
MaxClock == StartClock + MaxTicks

----------------------------------------------------------------------------
(* Program constants, in quarter hours and rows *)

REFRESH_INTERVAL == 1
HOUR == 4
VISIBLE_HEIGHT == 12
HEADER_ROWS == 2

----------------------------------------------------------------------------
(* Small helpers *)

None == <<>>
Some(x) == <<x>>
IsSome(o) == o # <<>>
Unwrap(o) == o[1]

SatSub(a, b) == IF a >= b THEN a - b ELSE 0

Loading == <<"Loading">>
Ready == <<"Ready">>
Error(msg) == <<"Error", msg>>
IsError(s) == s[1] = "Error"

\* str::trim: strips leading and trailing whitespace
RECURSIVE TrimStart(_)
TrimStart(s) == IF s # <<>> /\ Head(s) = " " THEN TrimStart(Tail(s)) ELSE s

RECURSIVE TrimEnd(_)
TrimEnd(s) == IF s # <<>> /\ s[Len(s)] = " " THEN TrimEnd(SubSeq(s, 1, Len(s) - 1)) ELSE s

Trim(s) == TrimEnd(TrimStart(s))

----------------------------------------------------------------------------
(* Data and collaborators *)

DefaultUnits ==
    [temperature |-> "Fahrenheit", wind_speed |-> "Mph",
     precipitation |-> "Inch", pressure |-> "InHg"]

NoLocationConfig ==
    [zipcode |-> None, latitude |-> None, longitude |-> None, city |-> None]

\* what the geocoder answers for a text it knows
LookupLocation(text) ==
    [latitude |-> 40 + Len(text), longitude |-> 70 + Len(text),
     city |-> <<"city of", text>>, region |-> Some("NY"),
     country |-> "US", timezone |-> "America/New_York"]

\* what the IP geolocation service answers
IpLocation ==
    [latitude |-> 50, longitude |-> 60, city |-> <<"Ipville">>,
     region |-> Some("IP"), country |-> "Ipland", timezone |-> "Europe/Ip"]

\* the failure texts of the collaborators (anyhow's outermost context)
LookupError(text) == <<"No location found for zipcode: ", text>>
IpError == <<"Failed to fetch IP geolocation">>
FetchError == <<"Failed to fetch weather data">>
SaveError == <<"Failed to write config file">>

\* the hourly samples of a snapshot: one per hour from the first midnight
HourlySamples == [i \in 1..NumHourly |-> [time |-> Some((i - 1) * HOUR)]]

\* the snapshot the weather service answers for a pair of coordinates
WeatherData(lat, lon) ==
    [latitude |-> lat, longitude |-> lon, hourly |-> HourlySamples]

\* the configurations Config::load can hand to App::new
InitLocationConfigs ==
    { NoLocationConfig,
      [zipcode |-> Some(<<"q">>), latitude |-> Some(10), longitude |-> Some(20),
       city |-> Some(<<"Home">>)],
      [zipcode |-> None, latitude |-> Some(10), longitude |-> Some(20),
       city |-> Some(<<"Home">>)],
      [zipcode |-> None, latitude |-> Some(10), longitude |-> Some(20),
       city |-> None],
      [zipcode |-> None, latitude |-> Some(10), longitude |-> None,
       city |-> None] }

----------------------------------------------------------------------------
(* src/ui/hourly.rs *)

\* the future-hour filter: a sample passes when its time parses and is not
\* older than one hour
IsFutureHour(h, t) == IsSome(h.time) /\ Unwrap(h.time) >= t - HOUR

get_max_hourly_scroll(hourly, visible_height, t) ==
    LET future_count == Cardinality({i \in 1..Len(hourly) : IsFutureHour(hourly[i], t)})
    IN  SatSub(future_count, SatSub(visible_height, HEADER_ROWS))

----------------------------------------------------------------------------
(* App::new and the entry of run_app *)

Init ==
    /\ config \in [location : InitLocationConfigs, units : {DefaultUnits}]
    /\ state = Loading
    /\ location = None
    /\ weather = None
    /\ last_updated = None
    /\ hourly_scroll = 0
    /\ show_help = FALSE
    /\ show_units_menu = FALSE
    /\ units_menu_selection = "Temperature"
    /\ units_changed = FALSE
    /\ show_location_input = FALSE
    /\ location_input = <<>>
    /\ location_error = None
    /\ should_quit = FALSE
    /\ pc = "start"
    /\ ret = "none"
    /\ last_refresh = StartClock
    /\ now = StartClock
    /\ pre = None
    /\ result = "none"
    /\ loads = 0
    /\ save_result = "none"
    /\ menu_keys = 0
    /\ lookup_result = "none"
    /\ event = "none"
    /\ arg = <<>>
    /\ out = <<>>

----------------------------------------------------------------------------
(* App::load_weather and App::get_location *)

\* a get_location that looks at the coordinates before the zipcode
GetLocationBranch_CoordsFirst(loc) ==
    IF IsSome(loc.latitude) /\ IsSome(loc.longitude) THEN "coords"
    ELSE IF IsSome(loc.zipcode) THEN "lookup"
    ELSE "ip"

\* the branch get_location takes
GetLocationBranch(loc) ==
    IF IsSome(loc.zipcode) THEN "lookup"
    ELSE IF IsSome(loc.latitude) /\ IsSome(loc.longitude) THEN "coords"
    ELSE "ip"

\* the Location get_location builds from configured coordinates
CoordsLocation(loc) ==
    [latitude |-> Unwrap(loc.latitude), longitude |-> Unwrap(loc.longitude),
     city |-> IF IsSome(loc.city) THEN Unwrap(loc.city) ELSE <<"Unknown">>,
     region |-> None, country |-> "", timezone |-> "auto"]

\* where run_app continues after the load_weather issued at a call site
AfterLoad(site) == IF site = "manual" THEN "check" ELSE "draw"

\* load_weather up to its first await, called from `site` with the location
\* configuration `loc` in force
LoadStart(site, loc) ==
    /\ state' = Loading
    /\ ret' = site
    /\ pre' = Some([location |-> location, weather |-> weather,
                    last_updated |-> last_updated, hourly_scroll |-> hourly_scroll])
    /\ loads' = IF loads < MaxLoads THEN loads + 1 ELSE loads
    /\ LET branch == GetLocationBranch(loc)
       IN  /\ pc' = CASE branch = "lookup" -> "await_lookup"
                      [] branch = "coords" -> "await_fetch"
                      [] OTHER -> "await_ip"
           /\ location' = IF branch = "coords"
                          THEN Some(CoordsLocation(loc))
                          ELSE location

\* a caller that drops the Err of load_weather without calling set_error
LoadFailed_NoSetError(msg) ==
    /\ state' = state
    /\ pc' = AfterLoad(ret)
    /\ ret' = "none"
    /\ pre' = None
    /\ last_refresh' = now

\* load_weather returns Err and the caller calls set_error
LoadFailed(msg) ==
    /\ state' = Error(msg)
    /\ pc' = AfterLoad(ret)
    /\ ret' = "none"
    /\ pre' = None
    /\ last_refresh' = now

\* a load_weather that marks the screen Ready as soon as the location is
\* known, before the weather has been fetched
LocationResolved_ReadyEarly ==
    /\ pc \in {"await_lookup", "await_ip"}
    /\ location' = IF pc = "await_lookup"
                   THEN Some(LookupLocation(Unwrap(config.location.zipcode)))
                   ELSE Some(IpLocation)
    /\ state' = Ready
    /\ pc' = "await_fetch"
    /\ UNCHANGED <<config, weather, last_updated, hourly_scroll,
                   show_help, show_units_menu, units_menu_selection, units_changed,
                   show_location_input, location_input, location_error, should_quit,
                   ret, last_refresh, now, pre, result, loads, save_result, menu_keys, lookup_result, event, pureVars>>

\* get_location's lookup_zipcode or get_location_from_ip answers
LocationResolved ==
    /\ pc \in {"await_lookup", "await_ip"}
    /\ location' = IF pc = "await_lookup"
                   THEN Some(LookupLocation(Unwrap(config.location.zipcode)))
                   ELSE Some(IpLocation)
    /\ pc' = "await_fetch"
    /\ UNCHANGED <<config, state, weather, last_updated, hourly_scroll,
                   show_help, show_units_menu, units_menu_selection, units_changed,
                   show_location_input, location_input, location_error, should_quit,
                   ret, last_refresh, now, pre, result, loads, save_result, menu_keys, lookup_result, event, pureVars>>

\* get_location's collaborator fails
LocationFailed ==
    /\ pc \in {"await_lookup", "await_ip"}
    /\ LoadFailed(IF pc = "await_lookup"
                  THEN LookupError(Unwrap(config.location.zipcode))
                  ELSE IpError)
    /\ UNCHANGED <<config, location, weather, last_updated, hourly_scroll,
                   show_help, show_units_menu, units_menu_selection, units_changed,
                   show_location_input, location_input, location_error, should_quit,
                   now, result, loads, save_result, menu_keys, lookup_result, event, pureVars>>

\* a load_weather that forgets to reset the scroll offset
FetchOk_KeepsScroll ==
    /\ pc = "await_fetch"
    /\ weather' = Some(WeatherData(Unwrap(location).latitude, Unwrap(location).longitude))
    /\ last_updated' = Some(now)
    /\ state' = Ready
    /\ pc' = AfterLoad(ret)
    /\ ret' = "none"
    /\ pre' = None
    /\ last_refresh' = now
    /\ UNCHANGED <<config, location, hourly_scroll,
                   show_help, show_units_menu, units_menu_selection, units_changed,
                   show_location_input, location_input, location_error, should_quit,
                   now, result, loads, save_result, menu_keys, lookup_result, event, pureVars>>

\* fetch_weather answers: the rest of load_weather
FetchOk ==
    /\ pc = "await_fetch"
    /\ weather' = Some(WeatherData(Unwrap(location).latitude, Unwrap(location).longitude))
    /\ last_updated' = Some(now)
    /\ hourly_scroll' = 0
    /\ state' = Ready
    /\ pc' = AfterLoad(ret)
    /\ ret' = "none"
    /\ pre' = None
    /\ last_refresh' = now
    /\ UNCHANGED <<config, location,
                   show_help, show_units_menu, units_menu_selection, units_changed,
                   show_location_input, location_input, location_error, should_quit,
                   now, result, loads, save_result, menu_keys, lookup_result, event, pureVars>>

\* a failure path that also closes the location overlay, as the Err arm of
\* the submit handler does
FetchFailed_ClosesOverlay ==
    /\ pc = "await_fetch"
    /\ LoadFailed(FetchError)
    /\ show_location_input' = FALSE
    /\ location_input' = <<>>
    /\ location_error' = None
    /\ UNCHANGED <<config, location, weather, last_updated, hourly_scroll,
                   show_help, show_units_menu, units_menu_selection, units_changed,
                   should_quit,
                   now, result, loads, save_result, menu_keys, lookup_result, event, pureVars>>

\* fetch_weather fails
FetchFailed ==
    /\ pc = "await_fetch"
    /\ LoadFailed(FetchError)
    /\ UNCHANGED <<config, location, weather, last_updated, hourly_scroll,
                   show_help, show_units_menu, units_menu_selection, units_changed,
                   show_location_input, location_input, location_error, should_quit,
                   now, result, loads, save_result, menu_keys, lookup_result, event, pureVars>>

\* run_app's initial load
InitialLoad ==
    /\ pc = "start"
    /\ LoadStart("initial", config.location)
    /\ UNCHANGED <<config, weather, last_updated, hourly_scroll,
                   show_help, show_units_menu, units_menu_selection, units_changed,
                   show_location_input, location_input, location_error, should_quit,
                   last_refresh, now, result, save_result, menu_keys, lookup_result, event, pureVars>>

----------------------------------------------------------------------------
(* The keys of the input source *)

CharKeys == {"q", "u", "r", "l", "k", "j", "?", " ", "x"}
Keys == {"Esc", "Enter", "Backspace", "Up", "Down", "Left", "Right", "Tab"} \cup CharKeys

\* a key handling whose units and location blocks do not end in `continue`
Dispatch_NoCapture ==
    IF show_help THEN "help" ELSE "base"

\* which block of run_app's key handling takes the next key press
Dispatch ==
    IF show_help THEN "help"
    ELSE IF show_units_menu THEN "units"
    ELSE IF show_location_input THEN "location"
    ELSE "base"

\* config.save(): the file is written or the write fails
Save(ok) == save_result' = IF ok THEN "ok" ELSE "err"

----------------------------------------------------------------------------
(* The App commands (src/app.rs) *)

units_menu_up(sel) ==
    CASE sel = "Temperature" -> "Pressure"
      [] sel = "WindSpeed" -> "Temperature"
      [] sel = "Precipitation" -> "WindSpeed"
      [] sel = "Pressure" -> "Precipitation"

\* a units_menu_down that stops at the last field
units_menu_down_NoWrap(sel) ==
    CASE sel = "Temperature" -> "WindSpeed"
      [] sel = "WindSpeed" -> "Precipitation"
      [] sel = "Precipitation" -> "Pressure"
      [] sel = "Pressure" -> "Pressure"

units_menu_down(sel) ==
    CASE sel = "Temperature" -> "WindSpeed"
      [] sel = "WindSpeed" -> "Precipitation"
      [] sel = "Precipitation" -> "Pressure"
      [] sel = "Pressure" -> "Temperature"

\* a units_menu_toggle_selected whose wind-speed cycle stops at its last value
units_menu_toggle_selected_NoWrap(units, sel) ==
    CASE sel = "Temperature" ->
           [units EXCEPT !.temperature =
               CASE @ = "Fahrenheit" -> "Celsius"
                 [] @ = "Celsius" -> "Fahrenheit"]
      [] sel = "WindSpeed" ->
           [units EXCEPT !.wind_speed =
               CASE @ = "Mph" -> "Kmh"
                 [] @ = "Kmh" -> "Ms"
                 [] @ = "Ms" -> "Knots"
                 [] @ = "Knots" -> "Knots"]
      [] sel = "Precipitation" ->
           [units EXCEPT !.precipitation =
               CASE @ = "Inch" -> "Mm"
                 [] @ = "Mm" -> "Inch"]
      [] sel = "Pressure" ->
           [units EXCEPT !.pressure =
               CASE @ = "Hpa" -> "InHg"
                 [] @ = "InHg" -> "Hpa"]

\* the units after units_menu_toggle_selected with `sel` focused
units_menu_toggle_selected(units, sel) ==
    CASE sel = "Temperature" ->
           [units EXCEPT !.temperature =
               CASE @ = "Fahrenheit" -> "Celsius"
                 [] @ = "Celsius" -> "Fahrenheit"]
      [] sel = "WindSpeed" ->
           [units EXCEPT !.wind_speed =
               CASE @ = "Mph" -> "Kmh"
                 [] @ = "Kmh" -> "Ms"
                 [] @ = "Ms" -> "Knots"
                 [] @ = "Knots" -> "Mph"]
      [] sel = "Precipitation" ->
           [units EXCEPT !.precipitation =
               CASE @ = "Inch" -> "Mm"
                 [] @ = "Mm" -> "Inch"]
      [] sel = "Pressure" ->
           [units EXCEPT !.pressure =
               CASE @ = "Hpa" -> "InHg"
                 [] @ = "InHg" -> "Hpa"]

\* a close_units_menu that tests the units-changed flag before the overlay flag
close_units_menu_FlagFirst(ok) ==
    IF units_changed
    THEN /\ show_units_menu' = FALSE
         /\ Save(ok)
         /\ units_changed' = FALSE
         /\ result' = "true"
    ELSE /\ show_units_menu' = FALSE
         /\ result' = "false"
         /\ UNCHANGED <<units_changed, save_result>>

\* close_units_menu, with config.save() succeeding or not; `result` is what
\* it returns
close_units_menu(ok) ==
    IF show_units_menu
    THEN /\ show_units_menu' = FALSE
         /\ IF units_changed
            THEN /\ Save(ok)
                 /\ units_changed' = FALSE
                 /\ result' = "true"
            ELSE /\ result' = "false"
                 /\ UNCHANGED <<units_changed, save_result>>
    ELSE /\ result' = "false"
         /\ UNCHANGED <<show_units_menu, units_changed, save_result>>

\* toggle_units_menu, with config.save() succeeding or not
toggle_units_menu(ok) ==
    /\ show_units_menu' = ~show_units_menu
    /\ IF ~show_units_menu' /\ units_changed
       THEN Save(ok)
       ELSE UNCHANGED save_result

\* open_location_input
open_location_input ==
    /\ show_location_input' = TRUE
    /\ location_input' = IF IsSome(config.location.zipcode)
                         THEN Unwrap(config.location.zipcode)
                         ELSE <<>>
    /\ location_error' = None

\* close_location_input
close_location_input ==
    /\ show_location_input' = FALSE
    /\ location_input' = <<>>
    /\ location_error' = None

----------------------------------------------------------------------------
(* run_app: one iteration of the loop (src/main.rs) *)

\* terminal.draw: the frame is drawn, the loop goes on to poll
Draw ==
    /\ pc = "draw"
    /\ event' = "none"
    /\ pc' = "poll"
    /\ result' = "none"
    /\ loads' = 0
    /\ save_result' = "none"
    /\ lookup_result' = "none"
    /\ UNCHANGED <<appVars, ret, last_refresh, now, pre, menu_keys, pureVars>>

\* time passes while the loop waits for an event or for an answer
Tick ==
    /\ pc \in {"poll", "await_lookup", "await_ip", "await_fetch", "await_submit"}
    /\ now < MaxClock
    /\ now' = now + 1
    /\ UNCHANGED <<appVars, pc, ret, last_refresh, pre, result, loads, save_result, menu_keys, lookup_result, event, pureVars>>

\* event::poll times out, or the event is not a key press
PollTimeout ==
    /\ pc = "poll"
    /\ pc' = "check"
    /\ UNCHANGED <<appVars, ret, last_refresh, now, pre, result, loads, save_result, menu_keys, lookup_result, event, pureVars>>

\* a help block that closes the overlay and, lacking its `continue`, lets the
\* key fall through to the base-screen match
KeyHelp_FallsThrough ==
    /\ pc = "poll" /\ Dispatch = "help"
    /\ event' = "close_help"
    /\ \E key \in Keys :
         /\ show_help' = FALSE
         /\ should_quit' = IF key \in {"q", "Esc"} THEN TRUE ELSE should_quit
         /\ pc' = "check"
    /\ UNCHANGED <<config, state, location, weather, last_updated, hourly_scroll,
                   show_units_menu, units_menu_selection, units_changed,
                   show_location_input, location_input, location_error,
                   ret, last_refresh, now, pre, result, loads, save_result, menu_keys, lookup_result, pureVars>>

\* any key while the help overlay shows
KeyHelp ==
    /\ pc = "poll" /\ Dispatch = "help"
    /\ event' = "close_help"
    /\ \E key \in Keys :
         /\ show_help' = FALSE
         /\ pc' = "draw"
    /\ UNCHANGED <<config, state, location, weather, last_updated, hourly_scroll,
                   show_units_menu, units_menu_selection, units_changed,
                   show_location_input, location_input, location_error, should_quit,
                   ret, last_refresh, now, pre, result, loads, save_result, menu_keys, lookup_result, pureVars>>

\* a units block that closes the menu with toggle_units_menu, which saves
\* but leaves the units-changed flag set
KeyUnitsClose_ViaToggle ==
    /\ pc = "poll" /\ Dispatch = "units"
    /\ event' = "close_units_menu"
    /\ \E key \in {"Esc", "u", "q"} : \E ok \in BOOLEAN : toggle_units_menu(ok)
    /\ result' = "false"
    /\ pc' = "draw"
    /\ UNCHANGED <<config, state, location, weather, last_updated, hourly_scroll,
                   show_help, units_menu_selection, units_changed,
                   show_location_input, location_input, location_error, should_quit,
                   ret, last_refresh, now, pre, loads, menu_keys, lookup_result, pureVars>>

\* Esc, u or q in the units menu: close_units_menu, its result is dropped
KeyUnitsClose ==
    /\ pc = "poll" /\ Dispatch = "units"
    /\ event' = "close_units_menu"
    /\ \E key \in {"Esc", "u", "q"} : \E ok \in BOOLEAN : close_units_menu(ok)
    /\ pc' = "draw"
    /\ UNCHANGED <<config, state, location, weather, last_updated, hourly_scroll,
                   show_help, units_menu_selection,
                   show_location_input, location_input, location_error, should_quit,
                   ret, last_refresh, now, pre, loads, menu_keys, lookup_result, pureVars>>

\* Up/k and Down/j in the units menu
KeyUnitsMove ==
    /\ pc = "poll" /\ Dispatch = "units"
    /\ menu_keys < MaxMenuKeys
    /\ menu_keys' = menu_keys + 1
    /\ \E key \in {"Up", "k", "Down", "j"} :
         IF key \in {"Up", "k"}
         THEN /\ event' = "units_menu_up"
              /\ units_menu_selection' = units_menu_up(units_menu_selection)
         ELSE /\ event' = "units_menu_down"
              /\ units_menu_selection' = units_menu_down(units_menu_selection)
    /\ pc' = "draw"
    /\ UNCHANGED <<config, state, location, weather, last_updated, hourly_scroll,
                   show_help, show_units_menu, units_changed,
                   show_location_input, location_input, location_error, should_quit,
                   ret, last_refresh, now, pre, result, loads, save_result, lookup_result, pureVars>>

\* Enter, space, Left or Right in the units menu
KeyUnitsToggle ==
    /\ pc = "poll" /\ Dispatch = "units"
    /\ event' = "units_menu_toggle_selected"
    /\ menu_keys < MaxMenuKeys
    /\ menu_keys' = menu_keys + 1
    /\ \E key \in {"Enter", " ", "Left", "Right"} :
         /\ units_changed' = TRUE
         /\ config' = [config EXCEPT !.units =
                          units_menu_toggle_selected(@, units_menu_selection)]
    /\ pc' = "draw"
    /\ UNCHANGED <<state, location, weather, last_updated, hourly_scroll,
                   show_help, show_units_menu, units_menu_selection,
                   show_location_input, location_input, location_error, should_quit,
                   ret, last_refresh, now, pre, result, loads, save_result, lookup_result, pureVars>>

\* a units block whose catch-all arm lets the key reach the base-screen match
KeyUnitsOther_FallsThrough ==
    /\ pc = "poll" /\ Dispatch = "units"
    /\ event' = "ignored"
    /\ \E key \in Keys \ {"Esc", "u", "q", "Up", "k", "Down", "j",
                          "Enter", " ", "Left", "Right"} :
         /\ show_help' = IF key = "?" THEN ~show_help ELSE show_help
         /\ pc' = "check"
    /\ UNCHANGED <<config, state, location, weather, last_updated, hourly_scroll,
                   show_units_menu, units_menu_selection, units_changed,
                   show_location_input, location_input, location_error, should_quit,
                   ret, last_refresh, now, pre, result, loads, save_result, menu_keys, lookup_result, pureVars>>

\* any other key in the units menu
KeyUnitsOther ==
    /\ pc = "poll" /\ Dispatch = "units"
    /\ event' = "ignored"
    /\ \E key \in Keys \ {"Esc", "u", "q", "Up", "k", "Down", "j",
                          "Enter", " ", "Left", "Right"} :
         pc' = "draw"
    /\ UNCHANGED <<appVars, ret, last_refresh, now, pre, result, loads, save_result, menu_keys, lookup_result, pureVars>>

\* Esc in the location overlay
KeyLocationClose ==
    /\ pc = "poll" /\ Dispatch = "location"
    /\ event' = "close_location_input"
    /\ \E key \in {"Esc"} : close_location_input
    /\ pc' = "draw"
    /\ UNCHANGED <<config, state, location, weather, last_updated, hourly_scroll,
                   show_help, show_units_menu, units_menu_selection, units_changed,
                   should_quit, ret, last_refresh, now, pre, result, loads, save_result, menu_keys, lookup_result, pureVars>>

\* a location_input_backspace that leaves the validation error in place
KeyLocationBackspace_KeepsError ==
    /\ pc = "poll" /\ Dispatch = "location"
    /\ event' = "location_input_backspace"
    /\ \E key \in {"Backspace"} :
         location_input' = IF location_input = <<>> THEN <<>>
                           ELSE SubSeq(location_input, 1, Len(location_input) - 1)
    /\ pc' = "draw"
    /\ UNCHANGED <<config, state, location, weather, last_updated, hourly_scroll,
                   show_help, show_units_menu, units_menu_selection, units_changed,
                   show_location_input, location_error, should_quit,
                   ret, last_refresh, now, pre, result, loads, save_result, menu_keys, lookup_result, pureVars>>

\* Backspace in the location overlay: location_input_backspace
KeyLocationBackspace ==
    /\ pc = "poll" /\ Dispatch = "location"
    /\ event' = "location_input_backspace"
    /\ \E key \in {"Backspace"} :
         /\ location_input' = IF location_input = <<>> THEN <<>>
                              ELSE SubSeq(location_input, 1, Len(location_input) - 1)
         /\ location_error' = None
    /\ pc' = "draw"
    /\ UNCHANGED <<config, state, location, weather, last_updated, hourly_scroll,
                   show_help, show_units_menu, units_menu_selection, units_changed,
                   show_location_input, should_quit,
                   ret, last_refresh, now, pre, result, loads, save_result, menu_keys, lookup_result, pureVars>>

\* a character key in the location overlay: location_input_char
KeyLocationChar ==
    /\ pc = "poll" /\ Dispatch = "location"
    /\ event' = "location_input_char"
    /\ Len(location_input) < MaxInputLen
    /\ \E c \in CharKeys \cap InputChars :
         /\ location_input' = Append(location_input, c)
         /\ location_error' = None
    /\ pc' = "draw"
    /\ UNCHANGED <<config, state, location, weather, last_updated, hourly_scroll,
                   show_help, show_units_menu, units_menu_selection, units_changed,
                   show_location_input, should_quit,
                   ret, last_refresh, now, pre, result, loads, save_result, menu_keys, lookup_result, pureVars>>

\* any other key in the location overlay
KeyLocationOther ==
    /\ pc = "poll" /\ Dispatch = "location"
    /\ event' = "ignored"
    /\ \E key \in {"Up", "Down", "Left", "Right", "Tab"} : pc' = "draw"
    /\ UNCHANGED <<appVars, ret, last_refresh, now, pre, result, loads, save_result, menu_keys, lookup_result, pureVars>>

\* Enter in the location overlay, the trimmed buffer is empty: submit_location
\* clears the configured location and saves; Ok(true) makes run_app call
\* load_weather, Err makes it call set_error and close the overlay
SubmitEmpty ==
    /\ pc = "poll" /\ Dispatch = "location"
    /\ event' = "submit_location"
    /\ "Enter" \in Keys
    /\ Trim(location_input) = <<>>
    /\ config' = [config EXCEPT !.location = NoLocationConfig]
    /\ close_location_input
    /\ \E ok \in BOOLEAN :
         /\ Save(ok)
         /\ IF ok
            THEN /\ result' = "true"
                 /\ LoadStart("submit", config'.location)
                 /\ UNCHANGED last_refresh
            ELSE /\ result' = "err"
                 /\ state' = Error(SaveError)
                 /\ pc' = "draw"
                 /\ UNCHANGED <<location, ret, pre, loads, last_refresh>>
    /\ UNCHANGED <<weather, last_updated, hourly_scroll,
                   show_help, show_units_menu, units_menu_selection, units_changed,
                   should_quit, now, menu_keys, lookup_result, pureVars>>

\* Enter in the location overlay, the trimmed buffer is not empty:
\* submit_location up to its await of lookup_zipcode
SubmitStart ==
    /\ pc = "poll" /\ Dispatch = "location"
    /\ event' = "submit_location"
    /\ "Enter" \in Keys
    /\ Trim(location_input) # <<>>
    /\ pc' = "await_submit"
    /\ UNCHANGED <<appVars, ret, last_refresh, now, pre, result, loads, save_result, menu_keys, lookup_result, pureVars>>

\* a submit_location that stores the coordinates and the city it found but
\* not the submitted text
SubmitLookupOk_CoordsOnly ==
    /\ pc = "await_submit"
    /\ lookup_result' = "ok"
    /\ LET input == Trim(location_input)
           found == LookupLocation(input)
       IN  config' = [config EXCEPT !.location =
                         [zipcode |-> None,
                          latitude |-> Some(found.latitude),
                          longitude |-> Some(found.longitude),
                          city |-> Some(found.city)]]
    /\ close_location_input
    /\ \E ok \in BOOLEAN :
         /\ Save(ok)
         /\ IF ok
            THEN /\ result' = "true"
                 /\ LoadStart("submit", config'.location)
                 /\ UNCHANGED last_refresh
            ELSE /\ result' = "err"
                 /\ state' = Error(SaveError)
                 /\ pc' = "draw"
                 /\ UNCHANGED <<location, ret, pre, loads, last_refresh>>
    /\ UNCHANGED <<weather, last_updated, hourly_scroll,
                   show_help, show_units_menu, units_menu_selection, units_changed,
                   should_quit, now, menu_keys, event, pureVars>>

\* lookup_zipcode answers submit_location: the location is stored in the
\* configuration and saved
SubmitLookupOk ==
    /\ pc = "await_submit"
    /\ lookup_result' = "ok"
    /\ LET input == Trim(location_input)
           found == LookupLocation(input)
       IN  config' = [config EXCEPT !.location =
                         [zipcode |-> Some(input),
                          latitude |-> Some(found.latitude),
                          longitude |-> Some(found.longitude),
                          city |-> Some(found.city)]]
    /\ close_location_input
    /\ \E ok \in BOOLEAN :
         /\ Save(ok)
         /\ IF ok
            THEN /\ result' = "true"
                 /\ LoadStart("submit", config'.location)
                 /\ UNCHANGED last_refresh
            ELSE /\ result' = "err"
                 /\ state' = Error(SaveError)
                 /\ pc' = "draw"
                 /\ UNCHANGED <<location, ret, pre, loads, last_refresh>>
    /\ UNCHANGED <<weather, last_updated, hourly_scroll,
                   show_help, show_units_menu, units_menu_selection, units_changed,
                   should_quit, now, menu_keys, event, pureVars>>

\* a submit_location that returns the lookup failure as Err, which run_app
\* turns into set_error and close_location_input
SubmitLookupFailed_Escalates ==
    /\ pc = "await_submit"
    /\ lookup_result' = "err"
    /\ state' = Error(LookupError(Trim(location_input)))
    /\ close_location_input
    /\ result' = "err"
    /\ pc' = "draw"
    /\ UNCHANGED <<config, location, weather, last_updated, hourly_scroll,
                   show_help, show_units_menu, units_menu_selection, units_changed,
                   should_quit, ret, last_refresh, now, pre, loads, save_result, menu_keys, event, pureVars>>

\* lookup_zipcode fails in submit_location: Ok(false)
SubmitLookupFailed ==
    /\ pc = "await_submit"
    /\ lookup_result' = "err"
    /\ location_error' = Some(<<"Not found: ", LookupError(Trim(location_input))>>)
    /\ result' = "false"
    /\ pc' = "draw"
    /\ UNCHANGED <<config, state, location, weather, last_updated, hourly_scroll,
                   show_help, show_units_menu, units_menu_selection, units_changed,
                   show_location_input, location_input, should_quit,
                   ret, last_refresh, now, pre, loads, save_result, menu_keys, event, pureVars>>

\* scroll_hourly_up
scroll_hourly_up(scroll) == IF scroll > 0 THEN scroll - 1 ELSE scroll

\* scroll_hourly_down at clock value t
scroll_hourly_down(scroll, w, t) ==
    IF IsSome(w)
    THEN LET max_scroll == get_max_hourly_scroll(Unwrap(w).hourly, VISIBLE_HEIGHT, t)
         IN  IF scroll < max_scroll THEN scroll + 1 ELSE scroll
    ELSE scroll

\* q or Esc on the base screen
KeyQuit ==
    /\ pc = "poll" /\ Dispatch = "base"
    /\ event' = "quit"
    /\ \E key \in {"q", "Esc"} : should_quit' = TRUE
    /\ pc' = "check"
    /\ UNCHANGED <<config, state, location, weather, last_updated, hourly_scroll,
                   show_help, show_units_menu, units_menu_selection, units_changed,
                   show_location_input, location_input, location_error,
                   ret, last_refresh, now, pre, result, loads, save_result, menu_keys, lookup_result, pureVars>>

\* a refresh that is not held back by the load_weather in flight, as if the
\* loads were spawned instead of awaited
KeyRefresh_WhileLoading ==
    /\ \/ pc = "poll" /\ Dispatch = "base"
       \/ pc = "await_fetch"
    /\ event' = "load_weather"
    /\ \E key \in {"r"} : LoadStart("manual", config.location)
    /\ UNCHANGED <<config, weather, last_updated, hourly_scroll,
                   show_help, show_units_menu, units_menu_selection, units_changed,
                   show_location_input, location_input, location_error, should_quit,
                   last_refresh, now, result, save_result, menu_keys, lookup_result, pureVars>>

\* r on the base screen: load_weather
KeyRefresh ==
    /\ pc = "poll" /\ Dispatch = "base"
    /\ event' = "load_weather"
    /\ \E key \in {"r"} : LoadStart("manual", config.location)
    /\ UNCHANGED <<config, weather, last_updated, hourly_scroll,
                   show_help, show_units_menu, units_menu_selection, units_changed,
                   show_location_input, location_input, location_error, should_quit,
                   last_refresh, now, result, save_result, menu_keys, lookup_result, pureVars>>

\* u on the base screen: toggle_units_menu
KeyUnitsMenu ==
    /\ pc = "poll" /\ Dispatch = "base"
    /\ event' = "toggle_units_menu"
    /\ \E key \in {"u"} : \E ok \in BOOLEAN : toggle_units_menu(ok)
    /\ pc' = "check"
    /\ UNCHANGED <<config, state, location, weather, last_updated, hourly_scroll,
                   show_help, units_menu_selection, units_changed,
                   show_location_input, location_input, location_error, should_quit,
                   ret, last_refresh, now, pre, result, loads, menu_keys, lookup_result, pureVars>>

\* l on the base screen: open_location_input
KeyLocationInput ==
    /\ pc = "poll" /\ Dispatch = "base"
    /\ event' = "open_location_input"
    /\ \E key \in {"l"} : open_location_input
    /\ pc' = "check"
    /\ UNCHANGED <<config, state, location, weather, last_updated, hourly_scroll,
                   show_help, show_units_menu, units_menu_selection, units_changed,
                   should_quit, ret, last_refresh, now, pre, result, loads, save_result, menu_keys, lookup_result, pureVars>>

\* Up/k and Down/j on the base screen
KeyScroll ==
    /\ pc = "poll" /\ Dispatch = "base"
    /\ \E key \in {"Up", "k", "Down", "j"} :
         IF key \in {"Up", "k"}
         THEN /\ event' = "scroll_hourly_up"
              /\ hourly_scroll' = scroll_hourly_up(hourly_scroll)
         ELSE /\ event' = "scroll_hourly_down"
              /\ hourly_scroll' = scroll_hourly_down(hourly_scroll, weather, now)
    /\ pc' = "check"
    /\ UNCHANGED <<config, state, location, weather, last_updated,
                   show_help, show_units_menu, units_menu_selection, units_changed,
                   show_location_input, location_input, location_error, should_quit,
                   ret, last_refresh, now, pre, result, loads, save_result, menu_keys, lookup_result, pureVars>>

\* ? on the base screen: toggle_help
KeyToggleHelp ==
    /\ pc = "poll" /\ Dispatch = "base"
    /\ event' = "toggle_help"
    /\ \E key \in {"?"} : show_help' = ~show_help
    /\ pc' = "check"
    /\ UNCHANGED <<config, state, location, weather, last_updated, hourly_scroll,
                   show_units_menu, units_menu_selection, units_changed,
                   show_location_input, location_input, location_error, should_quit,
                   ret, last_refresh, now, pre, result, loads, save_result, menu_keys, lookup_result, pureVars>>

\* any other key on the base screen
KeyBaseOther ==
    /\ pc = "poll" /\ Dispatch = "base"
    /\ event' = "ignored"
    /\ \E key \in Keys \ {"q", "Esc", "r", "u", "l", "Up", "k", "Down", "j", "?"} :
         pc' = "check"
    /\ UNCHANGED <<appVars, ret, last_refresh, now, pre, result, loads, save_result, menu_keys, lookup_result, pureVars>>

\* the quit check at the end of an iteration
Quit ==
    /\ pc = "check"
    /\ should_quit
    /\ pc' = "done"
    /\ UNCHANGED <<appVars, ret, last_refresh, now, pre, result, loads, save_result, menu_keys, lookup_result, event, pureVars>>

\* an auto-refresh placed before the quit check of the iteration
AutoRefresh_BeforeQuitCheck ==
    /\ pc = "check"
    /\ now - last_refresh >= REFRESH_INTERVAL
    /\ LoadStart("auto", config.location)
    /\ UNCHANGED <<config, weather, last_updated, hourly_scroll,
                   show_help, show_units_menu, units_menu_selection, units_changed,
                   show_location_input, location_input, location_error, should_quit,
                   last_refresh, now, result, save_result, menu_keys, lookup_result, event, pureVars>>

\* the auto-refresh at the end of an iteration
AutoRefresh ==
    /\ pc = "check"
    /\ ~should_quit
    /\ now - last_refresh >= REFRESH_INTERVAL
    /\ LoadStart("auto", config.location)
    /\ UNCHANGED <<config, weather, last_updated, hourly_scroll,
                   show_help, show_units_menu, units_menu_selection, units_changed,
                   show_location_input, location_input, location_error, should_quit,
                   last_refresh, now, result, save_result, menu_keys, lookup_result, event, pureVars>>

\* the end of an iteration with no refresh due
NoRefresh ==
    /\ pc = "check"
    /\ ~should_quit
    /\ now - last_refresh < REFRESH_INTERVAL
    /\ pc' = "draw"
    /\ UNCHANGED <<appVars, ret, last_refresh, now, pre, result, loads, save_result, menu_keys, lookup_result, event, pureVars>>

----------------------------------------------------------------------------
(* The specification *)

Next ==
    \/ InitialLoad
    \/ LocationResolved
    \/ LocationFailed
    \/ FetchOk
    \/ FetchFailed
    \/ Draw
    \/ Tick
    \/ PollTimeout
    \/ KeyHelp
    \/ KeyUnitsClose
    \/ KeyUnitsMove
    \/ KeyUnitsToggle
    \/ KeyUnitsOther
    \/ KeyLocationClose
    \/ KeyLocationBackspace
    \/ KeyLocationChar
    \/ KeyLocationOther
    \/ SubmitEmpty
    \/ SubmitStart
    \/ SubmitLookupOk
    \/ SubmitLookupFailed
    \/ KeyQuit
    \/ KeyRefresh
    \/ KeyUnitsMenu
    \/ KeyLocationInput
    \/ KeyScroll
    \/ KeyToggleHelp
    \/ KeyBaseOther
    \/ Quit
    \/ AutoRefresh
    \/ NoRefresh

Spec == Init /\ [][Next]_vars

----------------------------------------------------------------------------
(* The units-menu commands of App called one after another by any caller,  *)
(* from an App::new whose configuration holds any saved units              *)

\* the values of the unit enums, in declaration order
UnitValues ==
    [temperature |-> <<"Fahrenheit", "Celsius">>,
     wind_speed |-> <<"Mph", "Kmh", "Ms", "Knots">>,
     precipitation |-> <<"Inch", "Mm">>,
     pressure |-> <<"Hpa", "InHg">>]

\* the units a configuration file can hold
AllUnits ==
    [temperature : {"Fahrenheit", "Celsius"},
     wind_speed : {"Mph", "Kmh", "Ms", "Knots"},
     precipitation : {"Inch", "Mm"},
     pressure : {"Hpa", "InHg"}]

\* what a command of the units menu leaves alone
menuFrame == <<state, location, weather, last_updated, hourly_scroll,
               show_help, show_location_input, location_input, location_error,
               should_quit, ret, last_refresh, now, pre, loads, menu_keys,
               lookup_result, pureVars>>

AppInit ==
    /\ config \in [location : {NoLocationConfig}, units : AllUnits]
    /\ state = Loading
    /\ location = None
    /\ weather = None
    /\ last_updated = None
    /\ hourly_scroll = 0
    /\ show_help = FALSE
    /\ show_units_menu = FALSE
    /\ units_menu_selection = "Temperature"
    /\ units_changed = FALSE
    /\ show_location_input = FALSE
    /\ location_input = <<>>
    /\ location_error = None
    /\ should_quit = FALSE
    /\ pc = "call"
    /\ ret = "none"
    /\ last_refresh = StartClock
    /\ now = StartClock
    /\ pre = None
    /\ result = "none"
    /\ loads = 0
    /\ save_result = "none"
    /\ menu_keys = 0
    /\ lookup_result = "none"
    /\ event = "none"
    /\ arg = <<>>
    /\ out = <<>>

\* App::toggle_units_menu
CallToggleUnitsMenu ==
    /\ pc = "call"
    /\ event' = "toggle_units_menu"
    /\ \E ok \in BOOLEAN : toggle_units_menu(ok)
    /\ pc' = "returned"
    /\ UNCHANGED <<config, units_menu_selection, units_changed, result, menuFrame>>

\* App::units_menu_up
CallUnitsMenuUp ==
    /\ pc = "call"
    /\ event' = "units_menu_up"
    /\ units_menu_selection' = units_menu_up(units_menu_selection)
    /\ pc' = "returned"
    /\ UNCHANGED <<config, show_units_menu, units_changed, result, save_result, menuFrame>>

\* App::units_menu_down
CallUnitsMenuDown ==
    /\ pc = "call"
    /\ event' = "units_menu_down"
    /\ units_menu_selection' = units_menu_down(units_menu_selection)
    /\ pc' = "returned"
    /\ UNCHANGED <<config, show_units_menu, units_changed, result, save_result, menuFrame>>

\* App::units_menu_toggle_selected
CallUnitsMenuToggleSelected ==
    /\ pc = "call"
    /\ event' = "units_menu_toggle_selected"
    /\ units_changed' = TRUE
    /\ config' = [config EXCEPT !.units =
                     units_menu_toggle_selected(@, units_menu_selection)]
    /\ pc' = "returned"
    /\ UNCHANGED <<show_units_menu, units_menu_selection, result, save_result, menuFrame>>

\* App::close_units_menu
CallCloseUnitsMenu ==
    /\ pc = "call"
    /\ event' = "close_units_menu"
    /\ \E ok \in BOOLEAN : close_units_menu(ok)
    /\ pc' = "returned"
    /\ UNCHANGED <<config, units_menu_selection, menuFrame>>

\* the caller has looked at what the command returned
CallReturn ==
    /\ pc = "returned"
    /\ pc' = "call"
    /\ event' = "none"
    /\ result' = "none"
    /\ save_result' = "none"
    /\ UNCHANGED <<config, show_units_menu, units_menu_selection, units_changed, menuFrame>>

AppNext ==
    \/ CallToggleUnitsMenu
    \/ CallUnitsMenuUp
    \/ CallUnitsMenuDown
    \/ CallUnitsMenuToggleSelected
    \/ CallCloseUnitsMenu
    \/ CallReturn

SpecApp == AppInit /\ [][AppNext]_vars

----------------------------------------------------------------------------
(* src/ui/icons.rs: WeatherCondition::from_wmo_code called on any code *)

\* the variants of WeatherCondition
WeatherCondition ==
    {"ClearDay", "ClearNight", "PartlyCloudyDay", "PartlyCloudyNight", "Overcast",
     "Fog", "Drizzle", "Rain", "HeavyRain", "Snow", "HeavySnow", "Thunderstorm",
     "Unknown"}

\* a from_wmo_code whose shower range ends at 81
from_wmo_code_ShortRange(code, is_day) ==
    CASE code = 0 -> IF is_day THEN "ClearDay" ELSE "ClearNight"
      [] code \in {1, 2} -> IF is_day THEN "PartlyCloudyDay" ELSE "PartlyCloudyNight"
      [] code = 3 -> "Overcast"
      [] code \in {45, 48} -> "Fog"
      [] code \in {51, 53, 55, 56, 57} -> "Drizzle"
      [] code \in {61, 63, 66} -> "Rain"
      [] code \in {65, 67} -> "HeavyRain"
      [] code \in {71, 73, 77} -> "Snow"
      [] code \in {75, 85, 86} -> "HeavySnow"
      [] code >= 80 /\ code <= 81 -> "Rain"
      [] code \in {95, 96, 99} -> "Thunderstorm"
      [] OTHER -> "Unknown"

\* the match of from_wmo_code, arm by arm (the arms are disjoint)
from_wmo_code(code, is_day) ==
    CASE code = 0 -> IF is_day THEN "ClearDay" ELSE "ClearNight"
      [] code \in {1, 2} -> IF is_day THEN "PartlyCloudyDay" ELSE "PartlyCloudyNight"
      [] code = 3 -> "Overcast"
      [] code \in {45, 48} -> "Fog"
      [] code \in {51, 53, 55, 56, 57} -> "Drizzle"
      [] code \in {61, 63, 66} -> "Rain"
      [] code \in {65, 67} -> "HeavyRain"
      [] code \in {71, 73, 77} -> "Snow"
      [] code \in {75, 85, 86} -> "HeavySnow"
      [] code >= 80 /\ code <= 82 -> "Rain"
      [] code \in {95, 96, 99} -> "Thunderstorm"
      [] OTHER -> "Unknown"

\* the codes tried: every code of small magnitude, the code of the unit test
\* and the largest i32
WmoCodes == (-MaxCode .. MaxCode) \cup {999, 2147483647}

IconsInit ==
    /\ AppInit
    /\ config.units = DefaultUnits

\* WeatherCondition::from_wmo_code(code, is_day)
CallFromWmoCode ==
    /\ \E code \in WmoCodes : \E is_day \in BOOLEAN :
         /\ arg' = <<code, is_day>>
         /\ out' = Some(from_wmo_code(code, is_day))
    /\ UNCHANGED <<appVars, pc, ret, last_refresh, now, pre, result, loads,
                   save_result, menu_keys, lookup_result, event>>

IconsNext == CallFromWmoCode

SpecIcons == IconsInit /\ [][IconsNext]_vars

----------------------------------------------------------------------------
(* src/ui/icons.rs: wind_direction_str called on any number of degrees *)

\* i32 `%`: the remainder has the sign of the dividend
TruncRem(a, n) == IF a >= 0 THEN a % n ELSE 0 - ((0 - a) % n)

\* i32::rem_euclid for a positive divisor
rem_euclid(a, n) ==
    LET r == TruncRem(a, n)
    IN  IF r < 0 THEN r + n ELSE r

\* a wind_direction_str that normalizes with `%` instead of rem_euclid
wind_direction_str_TruncRem(degrees) ==
    LET normalized == TruncRem(degrees, 360)
    IN  CASE normalized >= 0 /\ normalized <= 22 -> "N"
          [] normalized >= 23 /\ normalized <= 67 -> "NE"
          [] normalized >= 68 /\ normalized <= 112 -> "E"
          [] normalized >= 113 /\ normalized <= 157 -> "SE"
          [] normalized >= 158 /\ normalized <= 202 -> "S"
          [] normalized >= 203 /\ normalized <= 247 -> "SW"
          [] normalized >= 248 /\ normalized <= 292 -> "W"
          [] normalized >= 293 /\ normalized <= 337 -> "NW"
          [] normalized >= 338 /\ normalized <= 359 -> "N"
          [] OTHER -> "N"

wind_direction_str(degrees) ==
    LET normalized == rem_euclid(degrees, 360)
    IN  CASE normalized >= 0 /\ normalized <= 22 -> "N"
          [] normalized >= 23 /\ normalized <= 67 -> "NE"
          [] normalized >= 68 /\ normalized <= 112 -> "E"
          [] normalized >= 113 /\ normalized <= 157 -> "SE"
          [] normalized >= 158 /\ normalized <= 202 -> "S"
          [] normalized >= 203 /\ normalized <= 247 -> "SW"
          [] normalized >= 248 /\ normalized <= 292 -> "W"
          [] normalized >= 293 /\ normalized <= 337 -> "NW"
          [] normalized >= 338 /\ normalized <= 359 -> "N"
          [] OTHER -> "N"

\* the degrees tried
Degrees == (0 - MaxDegrees) .. MaxDegrees

\* wind_direction_str(degrees)
CallWindDirectionStr ==
    /\ \E degrees \in Degrees :
         /\ arg' = <<degrees>>
         /\ out' = Some(wind_direction_str(degrees))
    /\ UNCHANGED <<appVars, pc, ret, last_refresh, now, pre, result, loads,
                   save_result, menu_keys, lookup_result, event>>

WindNext == CallWindDirectionStr

SpecWind == IconsInit /\ [][WindNext]_vars

----------------------------------------------------------------------------
(* src/config.rs: TemperatureUnit::convert.  An f64 is modelled as a       *)
(* binary fixed-point number, an integer count of 1/Scale; an operation    *)
(* whose exact result is off the grid rounds to the nearest grid value,    *)
(* ties to even, as the f64 operations do on their own grid.               *)

Scale == 16

\* n / d rounded to the nearest integer, ties to even (d > 0)
RoundDiv(n, d) ==
    LET q == n \div d
        r == n - q * d
    IN  IF 2 * r < d THEN q
        ELSE IF 2 * r > d THEN q + 1
        ELSE IF q % 2 = 0 THEN q ELSE q + 1

\* x * k, x / k and x + k for an f64 x and a whole constant k
FMul(x, k) == x * k
FDiv(x, k) == RoundDiv(x, k)
FAdd(x, k) == x + k * Scale

\* a convert that divides 9 by 5 as integers before it multiplies
convert_IntegerFactor(unit, celsius) ==
    CASE unit = "Celsius" -> celsius
      [] unit = "Fahrenheit" -> FAdd(FMul(celsius, 9 \div 5), 32)

\* TemperatureUnit::convert: celsius * 9.0 / 5.0 + 32.0
convert(unit, celsius) ==
    CASE unit = "Celsius" -> celsius
      [] unit = "Fahrenheit" -> FAdd(FDiv(FMul(celsius, 9), 5), 32)

\* the temperatures tried
Temperatures == (0 - MaxCelsius * Scale) .. (MaxCelsius * Scale)

\* unit.convert(celsius), called once
CallConvert ==
    /\ arg = <<>>
    /\ \E unit \in {"Celsius", "Fahrenheit"} : \E celsius \in Temperatures :
         /\ arg' = <<unit, celsius>>
         /\ out' = Some(convert(unit, celsius))
    /\ UNCHANGED <<appVars, pc, ret, last_refresh, now, pre, result, loads,
                   save_result, menu_keys, lookup_result, event>>

TempNext == CallConvert

SpecTemp == IconsInit /\ [][TempNext]_vars

----------------------------------------------------------------------------
(* src/ui/hourly.rs: render_hourly_forecast, as far as the rows and the    *)
(* scroll indicator go                                                     *)

Min(a, b) == IF a <= b THEN a ELSE b

\* the first n hourly samples of a snapshot
HourlyPrefix(n) == [i \in 1..n |-> [time |-> Some((i - 1) * HOUR)]]

\* render_hourly_forecast at clock value t in a panel of inner height
\* `height`: the samples shown as rows and whether the "more" line is pushed
render_hourly_forecast(hourly, scroll_offset, height, t) ==
    LET Future(h) == IsFutureHour(h, t)
        future_hours == SelectSeq(hourly, Future)
        available_height == height
        hours_to_show == SatSub(available_height, HEADER_ROWS)
        shown == SubSeq(future_hours, scroll_offset + 1,
                        Min(Len(future_hours), scroll_offset + hours_to_show))
        lines == HEADER_ROWS + Len(shown)
        total_future == Len(future_hours)
    IN  [rows |-> shown,
         more |-> scroll_offset + hours_to_show < total_future
                    /\ lines < available_height]

\* render_hourly_forecast(frame, area, hourly, units, scroll_offset), called once
CallRenderHourly ==
    /\ arg = <<>>
    /\ \E n \in 0..MaxHours : \E scroll_offset \in 0..MaxHours :
       \E height \in 0..MaxHeight : \E t \in {0, 2 * HOUR, 2 * HOUR + 1} :
         /\ arg' = <<HourlyPrefix(n), scroll_offset, height, t>>
         /\ out' = Some(render_hourly_forecast(HourlyPrefix(n), scroll_offset, height, t))
    /\ UNCHANGED <<appVars, pc, ret, last_refresh, now, pre, result, loads,
                   save_result, menu_keys, lookup_result, event>>

HourlyNext == CallRenderHourly

SpecHourly == IconsInit /\ [][HourlyNext]_vars

----------------------------------------------------------------------------
(* src/ui/daily.rs: render_daily_forecast, as far as the columns and       *)
(* their date labels go                                                    *)

\* the date strings a daily sample can carry
DateStrings == {"2026-11-04", "2026-11-05", "soon"}

\* NaiveDate::parse_from_str(date, "%Y-%m-%d")
ParseDate(s) ==
    CASE s = "2026-11-04" -> Some([year |-> 2026, month |-> 11, day |-> 4])
      [] s = "2026-11-05" -> Some([year |-> 2026, month |-> 11, day |-> 5])
      [] OTHER -> None

\* date.format("%a %m/%d")
FormatDate(d) ==
    CASE d = [year |-> 2026, month |-> 11, day |-> 4] -> "Wed 11/04"
      [] d = [year |-> 2026, month |-> 11, day |-> 5] -> "Thu 11/05"

\* the date label of render_day_column
DateLabel(day, is_today) ==
    IF IsSome(ParseDate(day.date))
    THEN IF is_today THEN "Today" ELSE FormatDate(Unwrap(ParseDate(day.date)))
    ELSE day.date

\* render_daily_forecast: the columns drawn, each with its sample and label
render_daily_forecast(daily) ==
    LET days == SubSeq(daily, 1, Min(Len(daily), 5))
    IN  [i \in 1..Len(days) |->
            [day |-> days[i], label |-> DateLabel(days[i], i = 1)]]

\* the daily samples tried
DailyInputs ==
    UNION {[1..n -> [date : DateStrings]] : n \in 0..MaxDays}

\* render_daily_forecast(frame, area, daily, units), called once
CallRenderDaily ==
    /\ arg = <<>>
    /\ \E daily \in DailyInputs :
         /\ arg' = <<daily>>
         /\ out' = Some(render_daily_forecast(daily))
    /\ UNCHANGED <<appVars, pc, ret, last_refresh, now, pre, result, loads,
                   save_result, menu_keys, lookup_result, event>>

DailyNext == CallRenderDaily

SpecDaily == IconsInit /\ [][DailyNext]_vars

----------------------------------------------------------------------------
(* The scroll commands of App called one after another on a Ready screen   *)
(* whose hourly panel has any inner height; arg holds that height          *)

ScrollInit ==
    /\ config \in [location : {NoLocationConfig}, units : {DefaultUnits}]
    /\ state = Ready
    /\ location = Some(IpLocation)
    /\ \E n \in 0..MaxSamples :
         weather = Some([latitude |-> IpLocation.latitude,
                         longitude |-> IpLocation.longitude,
                         hourly |-> HourlyPrefix(n)])
    /\ last_updated = Some(StartClock)
    /\ hourly_scroll = 0
    /\ show_help = FALSE
    /\ show_units_menu = FALSE
    /\ units_menu_selection = "Temperature"
    /\ units_changed = FALSE
    /\ show_location_input = FALSE
    /\ location_input = <<>>
    /\ location_error = None
    /\ should_quit = FALSE
    /\ pc = "call"
    /\ ret = "none"
    /\ last_refresh = StartClock
    /\ now = StartClock
    /\ pre = None
    /\ result = "none"
    /\ loads = 0
    /\ save_result = "none"
    /\ menu_keys = 0
    /\ lookup_result = "none"
    /\ event = "none"
    /\ arg \in {<<height>> : height \in MinPanelHeight..MaxPanelHeight}
    /\ out = <<>>

\* what a scroll command leaves alone
scrollFrame == <<config, state, location, weather, last_updated,
                 show_help, show_units_menu, units_menu_selection, units_changed,
                 show_location_input, location_input, location_error, should_quit,
                 pc, ret, last_refresh, now, pre, result, loads, save_result,
                 menu_keys, lookup_result, pureVars>>

\* App::scroll_hourly_up
CallScrollHourlyUp ==
    /\ event' = "scroll_hourly_up"
    /\ hourly_scroll' = scroll_hourly_up(hourly_scroll)
    /\ UNCHANGED scrollFrame

\* App::scroll_hourly_down
CallScrollHourlyDown ==
    /\ event' = "scroll_hourly_down"
    /\ hourly_scroll' = scroll_hourly_down(hourly_scroll, weather, now)
    /\ UNCHANGED scrollFrame

ScrollNext ==
    \/ CallScrollHourlyUp
    \/ CallScrollHourlyDown

SpecScroll == ScrollInit /\ [][ScrollNext]_vars

----------------------------------------------------------------------------
(* The claims *)

\* the scroll bound at the current clock value
MaxScrollNow ==
    IF IsSome(weather)
    THEN get_max_hourly_scroll(Unwrap(weather).hourly, VISIBLE_HEIGHT, now)
    ELSE 0

\* the location a load_weather has to resolve under the configuration in force
ResolvedLocation ==
    LET loc == config.location
    IN  IF loc.zipcode # None
        THEN LookupLocation(loc.zipcode[1])
        ELSE IF loc.latitude # None /\ loc.longitude # None
             THEN [latitude |-> loc.latitude[1], longitude |-> loc.longitude[1],
                   city |-> IF loc.city # None THEN loc.city[1] ELSE <<"Unknown">>,
                   region |-> None, country |-> "", timezone |-> "auto"]
             ELSE IpLocation

\* a step that ends a load_weather with a failure
LoadFailureStep == IsSome(pre) /\ pre' = None /\ IsError(state')

\* a step that ends a load_weather with success
LoadSuccessStep == IsSome(pre) /\ pre' = None /\ ~IsError(state')

\* C1: in every reachable state at most one of show_help, show_units_menu
\* and show_location_input is true.
C1_OneOverlay ==
    /\ ~(show_help /\ show_units_menu)
    /\ ~(show_help /\ show_location_input)
    /\ ~(show_units_menu /\ show_location_input)

\* C1 witness: the units menu is open and has handled a toggle key, with a
\* zipcode configured, and no other overlay is open
C1_Witness ==
    /\ show_units_menu /\ units_changed /\ pc = "draw"
    /\ config.location.zipcode = Some(<<"q">>)
    /\ ~show_help /\ ~show_location_input

\* C2: hourly_scroll stays within [0, max_scroll], max_scroll being the bound
\* computed from the samples that pass the future-hour filter at the current
\* time.
C2_ScrollWithinBound == hourly_scroll >= 0 /\ hourly_scroll <= MaxScrollNow

\* C3: when load_weather fails, the mode becomes Error and location, weather,
\* last_updated and hourly_scroll equal their values before the call.
C3_FailureKeepsData ==
    [][LoadFailureStep =>
         /\ location' = Unwrap(pre).location
         /\ weather' = Unwrap(pre).weather
         /\ last_updated' = Unwrap(pre).last_updated
         /\ hourly_scroll' = Unwrap(pre).hourly_scroll]_vars

\* C4: when the loop is about to draw and take the next input event, a reload
\* signal returned in this iteration has been followed by exactly one
\* load_weather call.
C4_ReloadSignalLoadsOnce == (pc = "draw" /\ result = "true") => loads = 1

\* C5: a step in which config.save() fails does not put the mode into Error,
\* closes the overlay and signals the reload (which starts, for a location
\* change, in the same step).
C5_SaveFailureSwallowed ==
    [][(save_result = "none" /\ save_result' = "err") =>
         /\ state' = state \/ state' = Loading
         /\ ~show_units_menu' /\ ~show_location_input'
         /\ result' = "true"]_vars

\* C6: when the text lookup of submit_location fails, the overlay stays open
\* with a non-empty validation error, the result is reload=false, no
\* load_weather is issued, and the configuration and the mode are unchanged.
C6_LookupFailureStaysInOverlay ==
    [][(pc = "await_submit" /\ lookup_result' = "err") =>
         /\ show_location_input'
         /\ location_error' # None /\ location_error'[1] # <<>>
         /\ result' = "false"
         /\ loads' = 0 /\ pc' = "draw" /\ ret' = "none"
         /\ config' = config
         /\ state' = state]_vars

\* C6 witness: the lookup has failed and the loop is back at draw with the
\* overlay open
C6_Witness ==
    /\ lookup_result = "err" /\ pc = "draw"
    /\ show_location_input /\ location_error # None
    /\ location_input = <<"q">>

\* C7: submit_location with a buffer that trims to empty clears the configured
\* location, saves, closes the overlay with an empty buffer and signals
\* reload=true.
C7_EmptySubmitClearsAndReloads ==
    [][(pc = "poll" /\ show_location_input /\ Trim(location_input) = <<>>
          /\ save_result' # "none") =>
         /\ config'.location = NoLocationConfig
         /\ ~show_location_input' /\ location_input' = <<>>
         /\ result' = "true"]_vars

\* C8: when the text lookup of submit_location succeeds, the configured
\* location is the submitted text with the resolved latitude, longitude and
\* city, the configuration is saved, the overlay is closed and the result is
\* reload=true.
C8_FoundSubmitStoresAndReloads ==
    [][(pc = "await_submit" /\ lookup_result' = "ok") =>
         /\ config'.location.zipcode = Some(Trim(location_input))
         /\ config'.location.latitude = Some(LookupLocation(Trim(location_input)).latitude)
         /\ config'.location.longitude = Some(LookupLocation(Trim(location_input)).longitude)
         /\ config'.location.city = Some(LookupLocation(Trim(location_input)).city)
         /\ save_result' # "none"
         /\ ~show_location_input'
         /\ result' = "true"]_vars

\* C9: a load_weather in flight has taken exactly the branch the priority
\* gives: it awaits the text lookup only with a zipcode configured, awaits IP
\* geolocation only with neither a zipcode nor both coordinates configured,
\* and the location it fetches weather for is the one the priority resolves.
C9_ResolutionPriority ==
    ret # "none" =>
        /\ pc \in {"await_lookup", "await_ip", "await_fetch"}
        /\ pc = "await_lookup" => config.location.zipcode # None
        /\ pc = "await_ip" =>
              /\ config.location.zipcode = None
              /\ config.location.latitude = None \/ config.location.longitude = None
        /\ pc = "await_fetch" => location = Some(ResolvedLocation)

\* C9 witness: a zipcode and other coordinates are configured, and the load
\* fetches weather for the looked-up location
C9_Witness ==
    /\ ret # "none" /\ pc = "await_fetch"
    /\ config.location.zipcode = Some(<<"q">>)
    /\ config.location.latitude = Some(10) /\ config.location.longitude = Some(20)
    /\ location = Some(LookupLocation(<<"q">>))

\* C10: when load_weather succeeds, location and weather are the newly
\* resolved location and the snapshot fetched for it, last_updated is set,
\* hourly_scroll is 0 and the mode is Ready.
C10_SuccessReplacesData ==
    [][LoadSuccessStep =>
         /\ location' = Some(ResolvedLocation)
         /\ weather' = Some(WeatherData(ResolvedLocation.latitude, ResolvedLocation.longitude))
         /\ last_updated' = Some(now)
         /\ hourly_scroll' = 0
         /\ state' = Ready]_vars

\* C10 witness: the reload issued after a submit_location that cleared the
\* configured location has just succeeded with the IP location
C10_Witness ==
    /\ state = Ready /\ ret = "none" /\ loads = 1 /\ pc = "draw"
    /\ result = "true"
    /\ location = Some(IpLocation)
    /\ weather = Some(WeatherData(IpLocation.latitude, IpLocation.longitude))
    /\ hourly_scroll = 0

\* C11: once the mode is Error it stays Error until the user presses the
\* refresh key: the only step that takes the mode away from Error is the
\* manual refresh, and that step enters Loading
C11_ErrorUntilRefresh ==
    [][(IsError(state) /\ ~IsError(state'))
          => (event' = "load_weather" /\ ret' = "manual" /\ state' = Loading)]_vars

\* a step of run_app that handles a key press
KeyPressStep == pc = "poll" /\ event' # "none"

\* C12: a key press while the help overlay shows closes the overlay and does
\* nothing else: every other field of the App is unchanged, no load_weather
\* is started and the loop goes straight to the next draw
C12_HelpKeyOnlyCloses ==
    [][(KeyPressStep /\ show_help)
          => /\ ~show_help'
             /\ event' = "close_help"
             /\ UNCHANGED <<config, state, location, weather, last_updated,
                            hourly_scroll, show_units_menu, units_menu_selection,
                            units_changed, show_location_input, location_input,
                            location_error, should_quit>>
             /\ ret' = "none" /\ loads' = loads /\ pc' = "draw"]_vars

\* a key press has just closed the help overlay
C12_Witness ==
    /\ pc = "draw" /\ event = "close_help"
    /\ ~show_help /\ ~should_quit /\ state = Ready

MenuRing == <<"Temperature", "WindSpeed", "Precipitation", "Pressure">>

\* the field d places after f on the ring
RingStep(f, d) ==
    LET i == CHOOSE k \in 1..Len(MenuRing) : MenuRing[k] = f
    IN  MenuRing[((i - 1 + d) % Len(MenuRing)) + 1]

\* C14: units_menu_down moves the focus one place forward on the ring
\* Temperature, WindSpeed, Precipitation, Pressure, Temperature and
\* units_menu_up one place backward; each undoes the other and four steps
\* in one direction come back to the start
C14_MenuFocusRing ==
    [][/\ (event = "none" /\ event' = "units_menu_down")
            => /\ units_menu_selection' = RingStep(units_menu_selection, 1)
               /\ units_menu_up(units_menu_selection') = units_menu_selection
               /\ units_menu_down(units_menu_down(units_menu_down(units_menu_selection')))
                     = units_menu_selection
       /\ (event = "none" /\ event' = "units_menu_up")
            => /\ units_menu_selection' = RingStep(units_menu_selection, 3)
               /\ units_menu_down(units_menu_selection') = units_menu_selection
               /\ units_menu_up(units_menu_up(units_menu_up(units_menu_selection')))
                     = units_menu_selection]_vars

\* units_menu_down has wrapped from Pressure to Temperature
C14_Witness ==
    /\ pc = "returned" /\ event = "units_menu_down"
    /\ units_menu_selection = "Temperature"

\* the configuration key of a menu field
FieldOf(sel) ==
    CASE sel = "Temperature" -> "temperature"
      [] sel = "WindSpeed" -> "wind_speed"
      [] sel = "Precipitation" -> "precipitation"
      [] sel = "Pressure" -> "pressure"

\* the value after v in the enumeration of field f, the first after the last
NextValue(f, v) ==
    LET vs == UnitValues[f]
        i == CHOOSE k \in 1..Len(vs) : vs[k] = v
    IN  vs[(i % Len(vs)) + 1]

\* the units after n toggles with `sel` focused
RECURSIVE ToggleTimes(_, _, _)
ToggleTimes(units, sel, n) ==
    IF n = 0 THEN units
    ELSE ToggleTimes(units_menu_toggle_selected(units, sel), sel, n - 1)

C18_AutoRefreshKeepsOverlay ==
    [][(ret = "auto" \/ ret' = "auto")
          => UNCHANGED <<show_location_input, location_input, location_error>>]_vars

\* an iteration without a key press has run the auto-refresh to its end
\* while the overlay showed a validation error
C18_Witness ==
    /\ pc = "draw" /\ event = "none" /\ loads = 1
    /\ show_location_input /\ location_input = <<"q">> /\ IsSome(location_error)

\* the positions at which run_app is suspended in a fetch
AwaitStates == {"await_lookup", "await_ip", "await_fetch", "await_submit"}

\* C19: fetches do not overlap and nothing else runs while one is
\* suspended: load_weather is in flight exactly at its own awaits and never
\* during the lookup of submit_location; while run_app is suspended no key
\* press is handled, no second load_weather starts, and the App changes only
\* when the fetch goes on
C19_FetchesDoNotOverlap ==
    [][/\ (ret # "none") = (pc \in {"await_lookup", "await_ip", "await_fetch"})
       /\ pc \in AwaitStates
            => /\ event' = event
               /\ pc' = pc => UNCHANGED appVars
               /\ ret # "none" => /\ loads' = loads
                                  /\ ret' \in {ret, "none"}
                                  /\ pre' \in {pre, None}]_vars

\* a manual refresh is in flight after an earlier load_weather has completed
C19_Witness ==
    /\ pc = "await_fetch" /\ ret = "manual" /\ event = "load_weather"
    /\ IsSome(weather)

\* the table of WMO codes: the codes that map to each condition other than
\* the clear, partly cloudy and unknown ones
WmoTable ==
    [Overcast |-> {3}, Fog |-> {45, 48}, Drizzle |-> {51, 53, 55, 56, 57},
     Rain |-> {61, 63, 66, 80, 81, 82}, HeavyRain |-> {65, 67},
     Snow |-> {71, 73, 77}, HeavySnow |-> {75, 85, 86},
     Thunderstorm |-> {95, 96, 99}]

\* C20: from_wmo_code answers for every code and flag: 0 is ClearDay or
\* ClearNight by the flag, 1 and 2 PartlyCloudyDay or PartlyCloudyNight, a
\* code of the table its condition whatever the flag, and every other code,
\* negative ones and ones above 99 included, Unknown
C20_WmoCodeTable ==
    arg # <<>> =>
        LET code == arg[1]
            is_day == arg[2]
            c == Unwrap(out)
        IN  /\ c \in WeatherCondition
            /\ (c = "ClearDay") = (code = 0 /\ is_day)
            /\ (c = "ClearNight") = (code = 0 /\ ~is_day)
            /\ (c = "PartlyCloudyDay") = (code \in {1, 2} /\ is_day)
            /\ (c = "PartlyCloudyNight") = (code \in {1, 2} /\ ~is_day)
            /\ \A k \in DOMAIN WmoTable : (c = k) = (code \in WmoTable[k])
            /\ (code < 0 \/ code > 99) => c = "Unknown"

\* a negative code has been classified
C20_Witness == arg = <<-1, TRUE>> /\ out = Some("Unknown")

\* the compass octants: name, first and last degree of each band
Octants ==
    { <<"N", 0, 22>>, <<"NE", 23, 67>>, <<"E", 68, 112>>, <<"SE", 113, 157>>,
      <<"S", 158, 202>>, <<"SW", 203, 247>>, <<"W", 248, 292>>,
      <<"NW", 293, 337>>, <<"N", 338, 359>> }

\* C21: wind_direction_str answers for the degree value brought into
\* 0..359 by whole turns, negative values and values of 360 and more
\* included: d and d + 360 give the same answer, and the answer is the
\* octant whose band holds the normalized value
C21_WindOctants ==
    arg # <<>> =>
        LET d == arg[1]
            n == CHOOSE m \in 0..359 : \E k \in -3..3 : d = m + 360 * k
        IN  /\ wind_direction_str(d + 360) = Unwrap(out)
            /\ \E o \in Octants : o[2] <= n /\ n <= o[3] /\ Unwrap(out) = o[1]

\* -90 degrees has been answered as 270 degrees
C21_Witness == arg = <<-90>> /\ out = Some("W")

\* C22: convert is the identity for Celsius and c * 9 / 5 + 32 (to within
\* half a grid step) for Fahrenheit; a larger input never gives a smaller
\* output; 0 C gives 32 F, 100 C gives 212 F and -40 C gives -40 F
C22_TemperatureConvert ==
    arg # <<>> =>
        LET unit == arg[1]
            c == arg[2]
            v == Unwrap(out)
            d == 5 * v - (9 * c + 160 * Scale)
        IN  /\ unit = "Celsius" => v = c
            /\ unit = "Fahrenheit" =>
                 /\ -2 <= d /\ d <= 2
                 /\ c = 0 => v = 32 * Scale
                 /\ c = 100 * Scale => v = 212 * Scale
                 /\ c = -40 * Scale => v = -40 * Scale
            /\ convert(unit, c + 1) >= v

\* -40 C has been converted to -40 F
C22_Witness == arg = <<"Fahrenheit", -40 * Scale>> /\ out = Some(-40 * Scale)

\* C23: the hourly list shows the "more" line exactly when filtered samples
\* exist beyond the window: when scroll_offset + (window height - 2) is less
\* than the number of filtered samples
C23_MoreIndicator ==
    arg # <<>> =>
        LET hourly == arg[1]
            scroll_offset == arg[2]
            height == arg[3]
            t == arg[4]
            filtered == Cardinality({i \in 1..Len(hourly) : IsFutureHour(hourly[i], t)})
        IN  Unwrap(out).more = (scroll_offset + SatSub(height, 2) < filtered)

\* C24: the daily renderer draws the first 5 samples when more than 5 are
\* given and all of them otherwise, and the label of the first column is
\* "Today" whatever the date string of its sample is
C24_DailyColumns ==
    arg # <<>> =>
        LET daily == arg[1]
            cols == Unwrap(out)
        IN  /\ Len(cols) = IF Len(daily) > 5 THEN 5 ELSE Len(daily)
            /\ \A i \in 1..Len(cols) : cols[i].day = daily[i]
            /\ Len(cols) > 0 => cols[1].label = "Today"

\* the maximum scroll offset of the hourly list as it is rendered
RenderMaxScroll ==
    get_max_hourly_scroll(Unwrap(weather).hourly, arg[1], now)

\* C25: the bound of scroll_hourly_down is the maximum scroll offset of the
\* list in the panel it is rendered in: no offset past that maximum is
\* reached by scroll_hourly_down, and when it moves no further the last
\* filtered sample is in view
C25_ScrollBoundMatchesWindow ==
    event = "scroll_hourly_down" =>
        /\ hourly_scroll <= RenderMaxScroll
        /\ scroll_hourly_down(hourly_scroll, weather, now) = hourly_scroll
             => hourly_scroll >= RenderMaxScroll

\* C26: in every reachable state, mode Ready implies that a location, a
\* weather snapshot and a last-refresh timestamp are all present
C26_ReadyHasData ==
    state = Ready => IsSome(location) /\ IsSome(weather) /\ IsSome(last_updated)

\* the Ready screen is shown, scrolled down the hourly list of its snapshot
C26_Witness ==
    /\ state = Ready /\ pc = "poll" /\ hourly_scroll > 0
    /\ IsSome(location) /\ IsSome(weather) /\ IsSome(last_updated)

\* C27: whenever the event loop draws a frame or is ready to handle an input
\* event, no load_weather is in flight and the mode is Ready or Error, never
\* Loading
C27_NoLoadingAtDraw ==
    pc \in {"draw", "poll"} => /\ state # Loading
                               /\ state = Ready \/ IsError(state)
                               /\ ret = "none" /\ pre = None

\* the initial load_weather has failed and the loop is about to draw the
\* Error screen with nothing loaded
C27_Witness ==
    /\ pc = "draw" /\ IsError(state) /\ loads = 1 /\ event = "none"
    /\ weather = None

\* C28: in every state reachable through the event loop, the units-changed
\* flag is false whenever the units menu is closed
C28_FlagOnlyWhileMenuOpen ==
    ~show_units_menu => ~units_changed

\* a unit was toggled and the menu closed, which cleared the flag; then the
\* menu was opened again and closed with no toggle, which saved nothing and
\* signalled no reload
C28_Witness ==
    /\ ~show_units_menu /\ ~units_changed
    /\ event = "close_units_menu" /\ result = "false" /\ save_result = "none"
    /\ config.units # DefaultUnits

\* C29: the quit flag is set only by the quit command of the base screen,
\* reached by q or Esc with no overlay open (a key press handled by an
\* overlay never sets it); once the flag is set the only step left is the
\* return of the loop at the quit check of the same iteration: no further
\* key press is handled, no load_weather is started and the App is not
\* touched again
C29_QuitEndsLoop ==
    [][/\ should_quit' # should_quit
            => /\ pc = "poll" /\ Dispatch = "base"
               /\ ~show_help /\ ~show_units_menu /\ ~show_location_input
               /\ event' = "quit" /\ should_quit' /\ pc' = "check"
       /\ should_quit
            => /\ pc = "check" /\ pc' = "done"
               /\ event' = event /\ loads' = loads /\ ret' = ret /\ pre' = pre
               /\ UNCHANGED appVars]_vars

\* the loop has returned after a quit although an auto-refresh was due
C29_Witness ==
    /\ should_quit /\ pc = "done" /\ event = "quit"
    /\ now - last_refresh >= REFRESH_INTERVAL

\* C30: the load_weather that follows a successful non-empty submit_location
\* waits on a second lookup of the submitted text, which is the configured
\* zipcode by then; it goes neither to the stored coordinates nor to the IP
\* geolocation; when that lookup answers, the location is its answer, and
\* when it fails the mode is Error with the lookup's message while the
\* configuration keeps the saved new location
C30_SubmitLooksUpTwice ==
    [][/\ (pc = "await_submit" /\ result' = "true")
            => /\ lookup_result' = "ok" /\ save_result' = "ok"
               /\ config'.location.zipcode = Some(Trim(location_input))
               /\ pc' = "await_lookup" /\ ret' = "submit"
               /\ state' = Loading
               /\ location' = location
       /\ (pc = "await_lookup" /\ ret = "submit" /\ pc' # pc)
            => /\ config' = config
               /\ \/ /\ pc' = "await_fetch"
                     /\ location' = Some(LookupLocation(Unwrap(config.location.zipcode)))
                  \/ /\ pc' = "draw"
                     /\ state' = Error(LookupError(Unwrap(config.location.zipcode)))
                     /\ save_result' = "ok"
                     /\ IsSome(config.location.latitude)
                     /\ IsSome(config.location.longitude)]_vars

\* the lookup of a submitted text succeeded and the location was saved, then
\* the lookup of load_weather failed: mode Error, new location configured
C30_Witness ==
    /\ pc = "draw" /\ event = "submit_location"
    /\ lookup_result = "ok" /\ save_result = "ok" /\ result = "true"
    /\ IsError(state) /\ state = Error(LookupError(Unwrap(config.location.zipcode)))
    /\ config.location.latitude = Some(LookupLocation(Unwrap(config.location.zipcode)).latitude)
    /\ ~show_location_input

====
